---- MODULE Spec2Model ----
(***************************************************************************)
(* Model of deepresearch_agent.py: the ResearchAgent (model handle, result *)
(* cleaning, search, summarize), the two graph nodes search_node and       *)
(* summarize_node, and the run_agent entry point.                          *)
(*                                                                         *)
(* A Python str is a sequence of one-character strings.  A fixed message   *)
(* of the program is a one-element sequence holding the literal.  A Python *)
(* dict is a function from the keys that are present to their values.      *)
(***************************************************************************)
EXTENDS Integers, Sequences, FiniteSets, TLC

VARIABLES summarizer, pc, query, provided, state, text, calls, modelCall, ret

vars == <<summarizer, pc, query, provided, state, text, calls, modelCall, ret>>

(***************************************************************************)
(* Bounds of the model.                                                    *)
(***************************************************************************)
MaxRaw == 6
MaxMixed == 4
MaxBatch == 2
MaxQuery == 4
MaxWords == 300

(***************************************************************************)
(* Python values and string operations.                                    *)
(***************************************************************************)
None == <<"None">>
EmDash == "EM DASH"
Hyphen == "-"
Space == " "
Newline == "\n"

Min(a, b) == IF a < b THEN a ELSE b
Max(a, b) == IF a > b THEN a ELSE b

Truthy(v) == v # None /\ v # <<>>

Or(a, b) == IF Truthy(a) THEN a ELSE b

Get(d, k, default) == IF k \in DOMAIN d THEN d[k] ELSE default

IsSpace(c) == c \in {Space, Newline}

Take(s, n) == SubSeq(s, 1, Min(n, Len(s)))

Contains(s, c) == \E i \in 1..Len(s) : s[i] = c

Strip(s) ==
    LET lo == CHOOSE i \in 1..Len(s) : ~IsSpace(s[i]) /\ \A j \in 1..(i - 1) : IsSpace(s[j])
        hi == CHOOSE i \in 1..Len(s) : ~IsSpace(s[i]) /\ \A j \in (i + 1)..Len(s) : IsSpace(s[j])
    IN  IF \A i \in 1..Len(s) : IsSpace(s[i]) THEN <<>> ELSE SubSeq(s, lo, hi)

WordCount(s) ==
    Cardinality({i \in 1..Len(s) : ~IsSpace(s[i]) /\ (i = 1 \/ IsSpace(s[i - 1]))})

SplitLast(s, sep) ==
    LET at == {i \in 1..Len(s) : s[i] = sep}
        last == CHOOSE i \in at : \A j \in at : j <= i
    IN  IF at = {} THEN s ELSE SubSeq(s, last + 1, Len(s))

SplitFirst(s, sep) ==
    LET at == {i \in 1..Len(s) : s[i] = sep}
        first == CHOOSE i \in at : \A j \in at : i <= j
    IN  IF at = {} THEN s ELSE SubSeq(s, 1, first - 1)

Words(n) == [i \in 1..(IF n = 0 THEN 0 ELSE 2 * n - 1) |-> IF i % 2 = 1 THEN "w" ELSE Space]

(***************************************************************************)
(* ResearchAgent._clean_search_results.  A raw result is [isdict, d]: d is *)
(* the dict when the item is one.  str() of a str is the str itself.       *)
(***************************************************************************)
TitleLimit == 200
ContentLimit == 500
SourceLimit == 100
ResultLimit == 5

ResolveUrl(result) == Or(Or(Get(result.d, "href", None), Get(result.d, "url", None)), <<>>)

ResolveTitle(result) == Get(result.d, "title", <<>>)

ResolveContent(result) ==
    Or(Or(Get(result.d, "body", None), Get(result.d, "description", None)),
       Get(result.d, "content", <<>>))

SkippedIgnoringSeen(result, seen_urls) ==
    \/ ~Truthy(ResolveUrl(result))
    \/ ~Truthy(ResolveTitle(result))

Lower(u) == [i \in 1..Len(u) |-> IF u[i] = "A" THEN "a" ELSE u[i]]

SkippedIgnoringCase(result, seen_urls) ==
    \/ ~Truthy(ResolveUrl(result))
    \/ ~Truthy(ResolveTitle(result))
    \/ Lower(ResolveUrl(result)) \in {Lower(u) : u \in seen_urls}

Skipped(result, seen_urls) ==
    \/ ~Truthy(ResolveUrl(result))
    \/ ~Truthy(ResolveTitle(result))
    \/ ResolveUrl(result) \in seen_urls

Source(title) ==
    IF Contains(title, EmDash)
    THEN Strip(SplitLast(title, EmDash))
    ELSE Strip(SplitLast(title, Hyphen))

Document(result) ==
    [title |-> Take(ResolveTitle(result), TitleLimit),
     content |-> Take(ResolveContent(result), ContentLimit),
     url |-> ResolveUrl(result),
     source |-> Take(Source(ResolveTitle(result)), SourceLimit)]

RECURSIVE CleanLoop(_, _, _)
CleanLoop(results, seen_urls, cleaned) ==
    IF results = <<>> THEN cleaned
    ELSE LET result == Head(results) IN
         IF ~result.isdict THEN CleanLoop(Tail(results), seen_urls, cleaned)
         ELSE IF Skipped(result, seen_urls) THEN CleanLoop(Tail(results), seen_urls, cleaned)
         ELSE CleanLoop(Tail(results), seen_urls \cup {ResolveUrl(result)},
                        Append(cleaned, Document(result)))

_clean_search_results(results) == Take(CleanLoop(results, {}, <<>>), ResultLimit)

(***************************************************************************)
(* The fixed messages of the program (transliterated).                     *)
(***************************************************************************)
ValidationMsg == <<"Zapros dolzhen soderzhat' minimum 3 simvola.">>
NoResultsMsg == <<"Rezul'taty ne naideny.">>
NoDataMsg == <<"Net dannyh dlya summarizacii">>
SummaryFailedMsg == <<"Ne udalos' sozdat' kratkoe soderzhanie">>
SummaryErrorMsg == <<"Oshibka pri sozdanii kratkogo soderzhaniya">>
NoSummaryMsg == <<"Net rezul'tatov">>
SummaryUnavailableMsg == <<"Kratkoe soderzhanie nedostupno">>
NoSourcesMsg == <<"Istochniki ne naideny">>
LinkPlaceholder == <<"Ssylka">>
UrlPlaceholder == <<"#">>
UnknownSource == <<"Neizvestnyi istochnik">>
Untitled == <<"Bez nazvaniya">>

(***************************************************************************)
(* ResearchAgent._init_model: the handle, or None when loading failed.     *)
(***************************************************************************)
Pipeline == <<"pipeline">>

_init_model(loaded) == IF loaded THEN Pipeline ELSE None

(***************************************************************************)
(* ResearchAgent.search.  outcome is what the provider call does: it       *)
(* raises, or it returns outcome.results.                                  *)
(***************************************************************************)
MinQueryLen == 3

SearchRejects(q) == ~Truthy(q) \/ Len(Strip(q)) < MinQueryLen

ProviderCallsWithRetry(q, outcome) ==
    IF SearchRejects(q) THEN <<>>
    ELSE IF outcome.raises THEN <<"provider", "provider">> ELSE <<"provider">>

ProviderCalls(q, outcome) == IF SearchRejects(q) THEN <<>> ELSE <<"provider">>

search(q, outcome) ==
    IF SearchRejects(q) THEN <<>>
    ELSE IF outcome.raises THEN <<>>
    ELSE _clean_search_results(outcome.results)

(***************************************************************************)
(* ResearchAgent.summarize.  out is what the model call does: it raises,   *)
(* or it returns out.result.  The value is the returned string and the     *)
(* model calls made, each with its arguments.                              *)
(***************************************************************************)
ShortTextWords == 10
MaxLenCap == 130
MaxLenFloor == 30
MinLenCap == 30

MaxLenNoFloor(word_count) == Min(MaxLenCap, word_count \div 2)

MaxLen(word_count) == Min(MaxLenCap, Max(MaxLenFloor, word_count \div 2))

MinLen(max_len) == Min(MinLenCap, max_len \div 2)

ModelCall(txt, out) ==
    [text |-> txt,
     max_length |-> MaxLen(WordCount(txt)),
     min_length |-> MinLen(MaxLen(WordCount(txt))),
     do_sample |-> FALSE,
     out |-> out]

ModelReturn(out) ==
    IF out.raises THEN SummaryErrorMsg
    ELSE IF out.result # <<>> THEN out.result[1].summary_text
    ELSE SummaryFailedMsg

SummarizeLengthFirst(txt, handle, out) ==
    IF ~Truthy(txt) THEN [ret |-> NoDataMsg, calls |-> <<>>]
    ELSE IF WordCount(Strip(txt)) < ShortTextWords THEN [ret |-> Strip(txt), calls |-> <<>>]
    ELSE IF ~Truthy(handle) THEN [ret |-> NoDataMsg, calls |-> <<>>]
    ELSE [ret |-> ModelReturn(out), calls |-> <<ModelCall(Strip(txt), out)>>]

SummarizeOneMarker(txt, handle, out) ==
    IF ~Truthy(txt) \/ ~Truthy(handle) THEN [ret |-> NoDataMsg, calls |-> <<>>]
    ELSE IF WordCount(Strip(txt)) < ShortTextWords THEN [ret |-> Strip(txt), calls |-> <<>>]
    ELSE [ret |-> IF out.raises THEN NoDataMsg ELSE ModelReturn(out),
          calls |-> <<ModelCall(Strip(txt), out)>>]

summarize(txt, handle, out) ==
    IF ~Truthy(txt) \/ ~Truthy(handle) THEN [ret |-> NoDataMsg, calls |-> <<>>]
    ELSE IF WordCount(Strip(txt)) < ShortTextWords THEN [ret |-> Strip(txt), calls |-> <<>>]
    ELSE [ret |-> ModelReturn(out), calls |-> <<ModelCall(Strip(txt), out)>>]

(***************************************************************************)
(* summarize_node.  Every item of results is a dict built by               *)
(* _clean_search_results, so the isinstance test never skips one.          *)
(***************************************************************************)
RECURSIVE CombinedText(_)
CombinedText(results) ==
    IF results = <<>> THEN <<>>
    ELSE LET result == results[Len(results)] IN
         CombinedText(SubSeq(results, 1, Len(results) - 1))
             \o <<Newline, Newline>>
             \o Get(result, "title", <<>>) \o <<Newline>> \o Get(result, "content", <<>>)

Link(result) ==
    [title |-> Strip(SplitFirst(Get(result, "title", LinkPlaceholder), EmDash)),
     url |-> Get(result, "url", UrlPlaceholder),
     source |-> Get(result, "source", UnknownSource)]

ValidLinks(results) == [i \in 1..Len(results) |-> Link(results[i])]

NodeSummaryAsIs(summary) == summary

NodeSummary(summary) == IF Truthy(summary) THEN summary ELSE NoSummaryMsg

NodeBody(results, handle, out) ==
    LET shown == Take(results, ResultLimit)
        combined_text == CombinedText(shown)
        s == summarize(Strip(combined_text), handle, out)
    IN  [update |-> [summary |-> NodeSummary(s.ret),
                     links |-> Take(ValidLinks(shown), ResultLimit)],
         text |-> <<Strip(combined_text)>>,
         calls |-> s.calls]

SummarizeNodeNoEarlyReturn(st, handle, out) == NodeBody(Get(st, "results", <<>>), handle, out)

SummarizeNodeResult(st, handle, out) ==
    IF Get(st, "results", <<>>) = <<>>
    THEN [update |-> [summary |-> NoResultsMsg, links |-> <<>>], text |-> <<>>, calls |-> <<>>]
    ELSE NodeBody(Get(st, "results", <<>>), handle, out)

(***************************************************************************)
(* run_agent: the validation, and the formatting of the graph's output.    *)
(***************************************************************************)
RunAgentRejectsUnstripped(q) == ~Truthy(q) \/ Len(q) < MinQueryLen

RunAgentRejects(q) == ~Truthy(q) \/ Len(Strip(q)) < MinQueryLen

FormatLink(link) ==
    <<"<div><a href=">> \o link.url \o <<">">> \o Get(link, "title", Untitled)
        \o <<"</a> - <span>">> \o Get(link, "source", UnknownSource) \o <<"</span></div>">>

RECURSIVE FormattedLinks(_)
FormattedLinks(links) ==
    IF links = <<>> THEN <<>>
    ELSE LET link == Head(links) IN
         (IF Truthy(Get(link, "url", None)) THEN <<FormatLink(link)>> ELSE <<>>)
             \o FormattedLinks(Tail(links))

RECURSIVE Join(_)
Join(parts) == IF parts = <<>> THEN <<>> ELSE Head(parts) \o Join(Tail(parts))

RunAgentOutput(output) ==
    LET summary == Get(output, "summary", SummaryUnavailableMsg)
        links == Take(Get(output, "links", <<>>), ResultLimit)
        formatted_links == FormattedLinks(links)
    IN  <<summary, IF formatted_links # <<>> THEN Join(formatted_links) ELSE NoSourcesMsg>>

(***************************************************************************)
(* Inputs: queries, raw provider results, provider and model outcomes.     *)
(***************************************************************************)
BoundedSeq(S, n) == UNION {[1..k -> S] : k \in 0..n}

Queries == BoundedSeq({"q", Space}, MaxQuery)

NotADict == [isdict |-> FALSE, d |-> <<>>]

Rec(d) == [isdict |-> TRUE, d |-> d]

DistinctItems ==
    { Rec([href |-> <<"a">>, title |-> <<"t">>, body |-> <<"w">>]),
      Rec([href |-> <<"A">>, title |-> <<"t">>]),
      Rec([href |-> <<"b">>, title |-> <<"t">>]),
      Rec([href |-> <<"c">>, title |-> <<"t">>]),
      Rec([href |-> <<"d">>, title |-> <<"t">>]),
      Rec([href |-> <<"e">>, title |-> <<"t">>]) }

RawItems ==
    DistinctItems \cup
    { Rec([href |-> <<>>, url |-> <<"a">>, title |-> <<"x">>, description |-> <<"v">>]),
      NotADict,
      Rec([title |-> <<"t">>]),
      Rec([href |-> <<"a">>, title |-> <<>>]) }

RawBatches == BoundedSeq(DistinctItems, MaxRaw) \cup BoundedSeq(RawItems, MaxMixed)

ProviderItems ==
    { NotADict,
      Rec([href |-> <<"a">>, title |-> <<"a", Space, EmDash, Space, "b">>, body |-> Words(3)]),
      Rec([url |-> <<"b">>, title |-> <<"a", Space, Hyphen, Space, "b">>, description |-> Words(12)]),
      Rec([href |-> <<"c">>, title |-> <<Space, Space>>]),
      Rec([href |-> <<"a">>, title |-> <<"c">>, content |-> Words(ContentLimit)]) }

ProviderOutcomes ==
    {[raises |-> TRUE, results |-> <<>>]}
        \cup {[raises |-> FALSE, results |-> b] : b \in BoundedSeq(ProviderItems, MaxBatch)}

ModelTexts == {<<>>, <<"s">>}

ModelOutcomes ==
    {[raises |-> TRUE, result |-> <<>>], [raises |-> FALSE, result |-> <<>>]}
        \cup {[raises |-> FALSE, result |-> <<[summary_text |-> t]>>] : t \in ModelTexts}

SummarizeInputs ==
    {Words(n) : n \in 0..MaxWords} \cup {<<Space>> \o Words(n) \o <<Newline>> : n \in 0..MaxWords}

(***************************************************************************)
(* The request pipeline: run_agent validates, the graph runs search_node   *)
(* and then summarize_node, run_agent formats the output and returns.      *)
(***************************************************************************)
Init ==
    /\ summarizer \in {_init_model(loaded) : loaded \in BOOLEAN}
    /\ pc = "idle"
    /\ query = <<>>
    /\ provided = <<>>
    /\ state = <<>>
    /\ text = <<>>
    /\ calls = <<>>
    /\ modelCall = <<>>
    /\ ret = <<>>

run_agent ==
    /\ pc \in {"idle", "done"}
    /\ \E q \in Queries :
        /\ query' = q
        /\ IF RunAgentRejects(q)
           THEN /\ pc' = "done"
                /\ state' = <<>>
                /\ ret' = <<ValidationMsg, <<>>>>
           ELSE /\ pc' = "search"
                /\ state' = [query |-> Strip(q)]
                /\ ret' = <<>>
    /\ provided' = <<>>
    /\ text' = <<>>
    /\ calls' = <<>>
    /\ modelCall' = <<>>
    /\ UNCHANGED summarizer

search_node ==
    /\ pc = "search"
    /\ \E outcome \in ProviderOutcomes :
        LET q == Strip(Get(state, "query", <<>>)) IN
        /\ state' = [results |-> search(q, outcome)] @@ state
        /\ calls' = calls \o <<"search">> \o ProviderCalls(q, outcome)
        /\ provided' = IF SearchRejects(q) THEN <<>> ELSE <<outcome>>
    /\ pc' = "summarize"
    /\ UNCHANGED <<summarizer, query, text, modelCall, ret>>

summarize_node ==
    /\ pc = "summarize"
    /\ \E out \in ModelOutcomes :
        LET r == SummarizeNodeResult(state, summarizer, out) IN
        /\ state' = r.update @@ state
        /\ text' = r.text
        /\ modelCall' = r.calls
        /\ calls' = calls \o <<"summarize_node">> \o [i \in 1..Len(r.calls) |-> "model"]
    /\ pc' = "format"
    /\ UNCHANGED <<summarizer, query, provided, ret>>

run_agent_return ==
    /\ pc = "format"
    /\ ret' = RunAgentOutput(state)
    /\ pc' = "done"
    /\ UNCHANGED <<summarizer, query, provided, state, text, calls, modelCall>>

Next == run_agent \/ search_node \/ summarize_node \/ run_agent_return

Spec == Init /\ [][Next]_vars

(***************************************************************************)
(* _clean_search_results applied to a batch of raw results.                *)
(***************************************************************************)
InitClean ==
    /\ summarizer = None
    /\ pc = "call"
    /\ query = <<>>
    /\ \E b \in RawBatches : provided = <<[raises |-> FALSE, results |-> b]>>
    /\ state = <<>>
    /\ text = <<>>
    /\ calls = <<>>
    /\ modelCall = <<>>
    /\ ret = <<>>

CleanCall ==
    /\ pc = "call"
    /\ state' = [results |-> _clean_search_results(provided[1].results)]
    /\ pc' = "returned"
    /\ UNCHANGED <<summarizer, query, provided, text, calls, modelCall, ret>>

SpecClean == InitClean /\ [][CleanCall]_vars

(***************************************************************************)
(* summarize applied to a text, for each state of the model handle.        *)
(***************************************************************************)
InitSummarize ==
    /\ summarizer \in {_init_model(loaded) : loaded \in BOOLEAN}
    /\ pc = "call"
    /\ query = <<>>
    /\ provided = <<>>
    /\ state = <<>>
    /\ text \in {<<t>> : t \in SummarizeInputs}
    /\ calls = <<>>
    /\ modelCall = <<>>
    /\ ret = <<>>

SummarizeCall ==
    /\ pc = "call"
    /\ \E out \in ModelOutcomes :
        LET s == summarize(text[1], summarizer, out) IN
        /\ ret' = <<s.ret>>
        /\ modelCall' = s.calls
        /\ calls' = [i \in 1..Len(s.calls) |-> "model"]
    /\ pc' = "returned"
    /\ UNCHANGED <<summarizer, query, provided, state, text>>

SpecSummarize == InitSummarize /\ [][SummarizeCall]_vars

(***************************************************************************)
(* Properties.                                                             *)
(***************************************************************************)
Results == Get(state, "results", <<>>)

Batch == provided[1].results

Usable(item) == item.isdict /\ ResolveUrl(item) # <<>> /\ ResolveTitle(item) # <<>>

\* C1: the list returned by _clean_search_results holds no two documents
\* with equal url and has at most 5 documents, whatever the raw batch.
C1_UniqueUrlsAtMostFive ==
    pc = "returned" =>
        /\ Len(Results) <= 5
        /\ \A i, j \in 1..Len(Results) : Results[i].url = Results[j].url => i = j

C1_Witness ==
    /\ pc = "returned"
    /\ Len(Results) = 5
    /\ Cardinality({ResolveUrl(Batch[i]) : i \in {k \in 1..Len(Batch) : Usable(Batch[k])}}) > 5

\* C10: the list returned by _clean_search_results is the reference scan
\* of the batch: in provider order, without the non-record items and the
\* records with an empty url or title, with the first record of each url
\* (exact match) and no later one, ended after 5 accepted documents.
FirstOfUrl(batch) ==
    {i \in 1..Len(batch) :
        /\ Usable(batch[i])
        /\ \A j \in 1..(i - 1) : Usable(batch[j]) => ResolveUrl(batch[j]) # ResolveUrl(batch[i])}

Reference(batch) ==
    LET first == FirstOfUrl(batch)
        kept == {i \in first : Cardinality({j \in first : j < i}) < 5}
        nth(k) == CHOOSE i \in kept : Cardinality({j \in kept : j < i}) = k - 1
    IN  [k \in 1..Cardinality(kept) |-> Document(batch[nth(k)])]

C10_EqualsReferenceScan == pc = "returned" => Results = Reference(Batch)

C10_Witness ==
    /\ pc = "returned"
    /\ \E i, j \in 1..Len(Batch) :
        /\ i < j
        /\ Usable(Batch[i]) /\ Usable(Batch[j])
        /\ ResolveUrl(Batch[i]) = ResolveUrl(Batch[j])
        /\ ResolveTitle(Batch[i]) # ResolveTitle(Batch[j])
        /\ \E k \in 1..Len(Results) : Results[k] = Document(Batch[i])
    /\ \E i \in 1..Len(Batch) : ~Batch[i].isdict
    /\ \E i \in 1..Len(Batch) : Batch[i].isdict /\ ~Usable(Batch[i])

Summary == Get(state, "summary", <<>>)

Links == Get(state, "links", <<>>)

TooShort(q) == q = <<>> \/ Len(Strip(q)) < 3

Synthesized == pc \in {"format", "done"}

ModelRaised == modelCall # <<>> /\ modelCall[1].out.raises

\* C2: a query that is empty or has fewer than 3 characters after trimming
\* is answered with the validation message and empty links, and the request
\* invokes neither search, nor the provider, nor the model.
C2_ShortQueryShortCircuits ==
    TooShort(query) =>
        /\ pc \in {"idle", "done"}
        /\ calls = <<>> /\ provided = <<>> /\ modelCall = <<>>
        /\ pc = "done" => ret = <<ValidationMsg, <<>>>>

C2_Witness == pc = "done" /\ query = <<Space, "q", "q", Space>> /\ ret = <<ValidationMsg, <<>>>>

\* C3: whatever the provider and the model do (the provider raises or
\* returns any batch; the model is missing, raises, returns nothing or
\* returns an empty text), the value run_agent returns is a pair whose
\* summary is a non-empty string.
C3_AlwaysReturnsNonEmptySummary == pc = "done" => Len(ret) = 2 /\ ret[1] # <<>>

C3_Witness ==
    /\ pc = "done"
    /\ modelCall # <<>>
    /\ modelCall[1].out = [raises |-> FALSE, result |-> <<[summary_text |-> <<>>]>>]
    /\ ret[1] = NoSummaryMsg

\* C4: a failed provider call and a batch without a usable result give the
\* same outcome: no documents, the no-results marker with no links, no
\* model call.
C4_FailureEqualsNoResults ==
    (Synthesized /\ provided # <<>>
        /\ (provided[1].raises \/ \A i \in 1..Len(Batch) : ~Usable(Batch[i]))) =>
        /\ Results = <<>>
        /\ Summary = NoResultsMsg /\ Links = <<>>
        /\ modelCall = <<>> /\ \A i \in 1..Len(calls) : calls[i] # "model"
        /\ pc = "done" => ret = <<NoResultsMsg, NoSourcesMsg>>

C4_Witness == pc = "done" /\ provided # <<>> /\ provided[1].raises /\ ret[1] = NoResultsMsg

ShortAggregate ==
    /\ Synthesized /\ Results # <<>> /\ text # <<>>
    /\ WordCount(text[1]) >= 1 /\ WordCount(text[1]) < 10

\* C5 as stated: documents whose aggregate text has 1 to 9 words give that
\* text, trimmed, as the summary, with no model call, whether the model
\* handle was initialised or not.
C5_Original == ShortAggregate => Summary = text[1] /\ modelCall = <<>>

\* C5: documents whose aggregate text has 1 to 9 words never reach the
\* model; the summary is that text, trimmed, when the model handle was
\* initialised, and the no-data marker when it failed to initialise.
C5_ShortTextVerbatimWhenModelLoaded ==
    ShortAggregate =>
        /\ modelCall = <<>>
        /\ summarizer # None => Summary = text[1]
        /\ summarizer = None => Summary = NoDataMsg

C5_Witness == pc = "done" /\ ShortAggregate /\ summarizer # None /\ ret[1] = text[1]

\* C7: a request with a valid query calls search and the provider once,
\* then runs summarize_node once, which calls the model at most once;
\* nothing is called again after a failure.
C7_SingleFlightNoRetry ==
    /\ pc = "search" => calls = <<>>
    /\ pc = "summarize" => calls = <<"search", "provider">> /\ Len(provided) = 1
    /\ (Synthesized /\ ~TooShort(query)) =>
        /\ calls \in {<<"search", "provider", "summarize_node">>,
                      <<"search", "provider", "summarize_node", "model">>}
        /\ Len(provided) = 1 /\ Len(modelCall) <= 1

C7_Witness ==
    /\ pc = "done" /\ provided # <<>> /\ ~provided[1].raises
    /\ ModelRaised
    /\ calls = <<"search", "provider", "summarize_node", "model">>

NoSummaryText ==
    \/ summarizer = None
    \/ ModelRaised
    \/ modelCall # <<>> /\ modelCall[1].out.result = <<>>

\* C8 as stated: with documents and no summary text, the summary is the
\* no-data marker exactly when the model failed to initialise (and then the
\* model is not called), and the error marker exactly when the model was
\* available and its call raised; it is never anything else.
C8_Original ==
    (Synthesized /\ Results # <<>> /\ NoSummaryText) =>
        /\ Summary \in {NoDataMsg, SummaryErrorMsg}
        /\ Summary = NoDataMsg <=> summarizer = None
        /\ Summary = SummaryErrorMsg <=> (summarizer # None /\ ModelRaised)
        /\ summarizer = None => modelCall = <<>>

\* C8: with documents, the summary is the no-data marker exactly when the
\* model failed to initialise or the aggregate text is empty (the model is
\* not called then), the error marker exactly when the model was available
\* and its call raised, and a third marker when the model returns an empty
\* result; the three markers differ.
C8_MarkersByCause ==
    (Synthesized /\ Results # <<>>) =>
        /\ Summary = NoDataMsg <=> (summarizer = None \/ text = <<<<>>>>)
        /\ Summary = NoDataMsg => modelCall = <<>>
        /\ Summary = SummaryErrorMsg <=> (summarizer # None /\ ModelRaised)
        /\ (modelCall # <<>> /\ ~ModelRaised /\ modelCall[1].out.result = <<>>) =>
               Summary = SummaryFailedMsg
        /\ Cardinality({NoDataMsg, SummaryErrorMsg, SummaryFailedMsg}) = 3

C8_Witness ==
    /\ pc = "done" /\ Results # <<>>
    /\ summarizer # None /\ ModelRaised
    /\ ret[1] = SummaryErrorMsg

AttributionSeparator(title) == IF Contains(title, EmDash) THEN EmDash ELSE Hyphen

\* C9: the title of the link built from a document is the part of the
\* document's title before the attribution separator: the em-dash when the
\* title holds one, the hyphen otherwise.
C9_LinkTitleBeforeSeparator ==
    (Synthesized /\ Results # <<>>) =>
        /\ Len(Links) = Len(Results)
        /\ \A i \in 1..Len(Links) :
            Links[i].title =
                Strip(SplitFirst(Results[i].title, AttributionSeparator(Results[i].title)))

\* C6: with the model available and a text of W >= 10 words, the model is
\* called with max_length = W \div 2 held within 30..130 and min_length the
\* smaller of 30 and max_length \div 2, so min_length <= max_length; at
\* W = 300 also 30 <= min_length.
C6_LengthBounds ==
    (pc = "returned" /\ summarizer # None /\ WordCount(Strip(text[1])) >= 10) =>
        LET W == WordCount(Strip(text[1]))
            half == W \div 2
            max_length == modelCall[1].max_length
            min_length == modelCall[1].min_length
        IN  /\ Len(modelCall) = 1
            /\ max_length = IF half < 30 THEN 30 ELSE IF half > 130 THEN 130 ELSE half
            /\ min_length = IF max_length \div 2 < 30 THEN max_length \div 2 ELSE 30
            /\ min_length <= max_length /\ 30 <= max_length /\ max_length <= 130
            /\ W = 300 => 30 <= min_length

C6_Witness ==
    /\ pc = "returned" /\ summarizer # None
    /\ WordCount(Strip(text[1])) = 300
    /\ modelCall # <<>> /\ modelCall[1].max_length = 130 /\ modelCall[1].min_length = 30

====
